---- MODULE Spec2Model ----
(***************************************************************************)
(* Model of src/scrape.py: the asynchronous poster scraper.                *)
(*                                                                         *)
(* One asyncio task per input row runs fetch_image; scrape_all gathers    *)
(* them; main writes the success mapping.  Every action below is the code  *)
(* a task runs between two suspension points (await).                      *)
(***************************************************************************)
EXTENDS Integers, Sequences, FiniteSets, TLC

\* ------------------------------------------------------------------ bounds
NumRows == 2            \* rows of the input table (len(df))
MaxConcurrency == 2     \* largest configured value of CONCURRENCY explored
MaxRuns == 2            \* runs of the program on the same input
MaxNameLen == 3         \* longest title given to sanitize_filename alone
MaxClip == 3            \* largest max_len given to sanitize_filename alone

\* ------------------------------------------------------- program constants
max_len == 100          \* default of sanitize_filename's max_len
OK == 200               \* the status fetch_image compares with

Rows == 1..NumRows

\* pandas' missing value (a float NaN, not a string)
NaN == <<"NaN">>
isna(x) == x = NaN

\* ---------------------------------------------------------------- strings
\* A string is a sequence of one-character strings.
Letters ==
  {"a","b","c","d","e","f","g","h","i","j","k","l","m","n","o","p","q","r","s",
   "t","u","v","w","x","y","z","A","B","C","D","E","F","G","H","I","J","K","L",
   "M","N","O","P","Q","R","S","T","U","V","W","X","Y","Z"}
Digits == {"0","1","2","3","4","5","6","7","8","9"}

\* the characters the class [^A-Za-z0-9._-] does NOT match
SafeChar(c) == c \in Letters \cup Digits \cup {".", "_", "-"}

\* SAFE_CHARS.sub("_", name): the pattern ends in +, so every maximal run of
\* unsafe characters is replaced by one "_".
\* mutant: the pattern without its +: no run is skipped
SkipUnsafe_NoPlus(s) == s

RECURSIVE SkipUnsafe(_)
SkipUnsafe(s) ==
  IF s = <<>> \/ SafeChar(Head(s)) THEN s ELSE SkipUnsafe(Tail(s))

RECURSIVE SAFE_CHARS_sub(_)
SAFE_CHARS_sub(s) ==
  IF s = <<>> THEN <<>>
  ELSE IF SafeChar(Head(s)) THEN <<Head(s)>> \o SAFE_CHARS_sub(Tail(s))
  ELSE <<"_">> \o SAFE_CHARS_sub(SkipUnsafe(Tail(s)))

\* mutant: the slice is forgotten
Clip_Forgotten(s, n) == s

\* Python's s[:n]: a negative n counts from the end
Clip(s, n) ==
  IF n >= 0 THEN SubSeq(s, 1, IF n < Len(s) THEN n ELSE Len(s))
  ELSE SubSeq(s, 1, IF Len(s) + n > 0 THEN Len(s) + n ELSE 0)

Ext == <<".", "j", "p", "g">>

sanitize_filename(name, n) == Clip(SAFE_CHARS_sub(name), n) \o Ext

IMAGE_DIR == <<"poster_images", "/">>
imagepath(title) == IMAGE_DIR \o sanitize_filename(title, max_len)

\* url.startswith(prefix)
startswith(s, prefix) ==
  Len(s) >= Len(prefix) /\ SubSeq(s, 1, Len(prefix)) = prefix

Http == <<"h", "t", "t", "p">>

\* the test of fetch_image's first line
InvalidUrl(url) == isna(url) \/ ~startswith(url, Http)

\* ----------------------------------------------------------------- inputs
Absent == NaN
HttpUrl == <<"h", "t", "t", "p", ":">>              \* an http: URL
Urls ==
  { Absent,                               \* no value in the Poster column
    <<>>,                                 \* empty
    <<"f", "t", "p", ":">>,               \* another scheme
    HttpUrl,
    <<"h", "t", "t", "p", "x">> }         \* starts with "http", no HTTP(S) scheme
\* two titles that sanitize to the same filename, and a missing title
Titles == { <<"a", " ">>, <<"a", "_">>, NaN }

\* the url has the scheme http: or https:
IsHttpUrl(url) ==
  /\ ~isna(url)
  /\ \/ startswith(url, Http \o <<":">>)
     \/ startswith(url, Http \o <<"s", ":">>)

\* the rows explored: every title with a fetchable url, every other url
\* with one title
RowSet ==
  { [Title |-> t, Poster |-> HttpUrl, Score |-> 7] : t \in Titles } \cup
  { [Title |-> <<"a", " ">>, Poster |-> u, Score |-> 8] : u \in Urls \ {HttpUrl} }

\* what the server (or the transport) may answer to one GET
Bodies == { <<1>>, <<2, 2>> }
BadStatus == {404, 500}
TransportErrors == {"ClientConnectorError", "TimeoutError"}

Paths == { imagepath(t) : t \in Titles \ {NaN} }
NoFile == [exists |-> FALSE, data |-> <<>>]

\* a write of `new` at offset 0 of a file holding `old`
Overlay(old, new) == new \o SubSeq(old, Len(new) + 1, Len(old))

\* ------------------------------------------------------------------ state
VARIABLES
  rows,         \* df: row index -> [Title, Poster, Score]
  CONCURRENCY,  \* the configured limit, the semaphore's initial value
  sem,          \* free slots of asyncio.Semaphore
  pc,           \* where each row's fetch_image task is suspended
  site,         \* which log_failure call of fetch_image the task is in
  reason,       \* the reason argument of that call
  body,         \* content returned by resp.read()
  status,       \* resp.status of the task's response (0: no response yet)
  ret,          \* return value of fetch_image: None or <<path, score>>
  calls,        \* number of log_failure calls the task has made
  log,          \* FAILED_JSONL: sequence of whole records
  files,        \* IMAGE_DIR: path -> [exists, data]
  mainpc,       \* where main / scrape_all is
  results,      \* the list scrape_all returns
  mapping,      \* MAPPING_CSV
  nwrites,      \* number of times main has written MAPPING_CSV
  run,          \* which run of the program this is (the log outlives a run)
  base,         \* length of FAILED_JSONL when this run started
  san           \* one call of sanitize_filename: [name, max_len, out, pc]

vars == <<rows, CONCURRENCY, sem, pc, site, reason, body, status, ret, calls,
          log, files, mainpc, results, mapping, nwrites, run, base, san>>

\* what no step of a run changes
frame == <<run, base, san>>

None == <<>>

\* no call of sanitize_filename under study
NoCall == [name |-> <<>>, max_len |-> 0, out |-> <<>>, pc |-> "none"]

Terminal == {"done", "raised", "cancelled"}

\* the task is inside `async with sem`
Held(w) ==
  \/ pc[w] \in {"get", "img_open", "img_write"}
  \/ pc[w] \in {"log_open", "log_flush"} /\ site[w] # "validate"

\* the task is inside `async with session.get(url) as resp`
Connected(w) ==
  \/ pc[w] \in {"get", "img_open", "img_write"}
  \/ pc[w] \in {"log_open", "log_flush"} /\ site[w] = "status"

Init ==
  /\ rows \in [Rows -> RowSet]
  /\ CONCURRENCY \in 1..MaxConcurrency
  /\ sem = CONCURRENCY
  /\ pc = [w \in Rows |-> "start"]
  /\ site = [w \in Rows |-> "none"]
  /\ reason = [w \in Rows |-> "none"]
  /\ body = [w \in Rows |-> <<>>]
  /\ status = [w \in Rows |-> 0]
  /\ ret = [w \in Rows |-> None]
  /\ calls = [w \in Rows |-> 0]
  /\ log = <<>>
  /\ files = [p \in Paths |-> NoFile]
  /\ mainpc = "gather"
  /\ results = <<>>
  /\ mapping = NoFile
  /\ nwrites = 0
  /\ run = 1
  /\ base = 0
  /\ san = NoCall

\* --------------------------------------------------------------- fetch_image
\* `await log_failure(title, url, r)` issued from call site s: the task
\* suspends in aiofiles.open
CallLog(w, s, r) ==
  /\ pc' = [pc EXCEPT ![w] = "log_open"]
  /\ site' = [site EXCEPT ![w] = s]
  /\ reason' = [reason EXCEPT ![w] = r]
  /\ calls' = [calls EXCEPT ![w] = @ + 1]

\* mutant: the slot is released on the normal path only
Raise_NoRelease(w) ==
  /\ pc' = [pc EXCEPT ![w] = "raised"]
  /\ sem' = sem

\* the exception leaves fetch_image; `async with sem` releases on the way out
Raise(w) ==
  /\ pc' = [pc EXCEPT ![w] = "raised"]
  /\ sem' = IF Held(w) THEN sem + 1 ELSE sem

\* `return v`; `async with sem` releases on the way out
Return(w, v) ==
  /\ pc' = [pc EXCEPT ![w] = "done"]
  /\ ret' = [ret EXCEPT ![w] = v]
  /\ sem' = IF Held(w) THEN sem + 1 ELSE sem

\* lines 64-71: validation, filename, up to the semaphore
Validate(w) ==
  /\ pc[w] = "start"
  /\ IF InvalidUrl(rows[w].Poster)
       THEN /\ CallLog(w, "validate", "invalid_or_missing_url")
            /\ UNCHANGED sem
       ELSE IF isna(rows[w].Title)
         THEN \* re.sub raises TypeError on a non-string, outside any try
              /\ Raise(w)
              /\ UNCHANGED <<site, reason, calls>>
         ELSE /\ pc' = [pc EXCEPT ![w] = "acquire"]
              /\ UNCHANGED <<site, reason, calls, sem>>
  /\ UNCHANGED <<frame, rows, CONCURRENCY, body, status, ret, log, files, mainpc, results,
                 mapping, nwrites>>

\* mutant: the GET is issued without waiting for a free slot
Acquire_NoWait(w) ==
  /\ pc[w] = "acquire"
  /\ sem' = IF sem > 0 THEN sem - 1 ELSE 0
  /\ pc' = [pc EXCEPT ![w] = "get"]
  /\ UNCHANGED <<frame, rows, CONCURRENCY, site, reason, body, status, ret, calls, log, files,
                 mainpc, results, mapping, nwrites>>

\* line 71-73: a slot is free; the task takes it and issues the GET
Acquire(w) ==
  /\ pc[w] = "acquire"
  /\ sem > 0
  /\ sem' = sem - 1
  /\ pc' = [pc EXCEPT ![w] = "get"]
  /\ UNCHANGED <<frame, rows, CONCURRENCY, site, reason, body, status, ret, calls, log, files,
                 mainpc, results, mapping, nwrites>>

\* lines 73-78: the response arrives with status 200 and resp.read() gives b
GetOk(w, b) ==
  /\ pc[w] = "get"
  /\ IsHttpUrl(rows[w].Poster)
  /\ body' = [body EXCEPT ![w] = b]
  /\ status' = [status EXCEPT ![w] = OK]
  /\ pc' = [pc EXCEPT ![w] = "img_open"]
  /\ UNCHANGED <<frame, rows, CONCURRENCY, sem, site, reason, ret, calls, log, files,
                 mainpc, results, mapping, nwrites>>

\* lines 74-75: the response has another status
GetStatus(w, c) ==
  /\ pc[w] = "get"
  /\ IsHttpUrl(rows[w].Poster)
  /\ c # OK
  /\ status' = [status EXCEPT ![w] = c]
  /\ CallLog(w, "status", "http_status_" \o ToString(c))
  /\ UNCHANGED <<frame, rows, CONCURRENCY, sem, body, ret, log, files, mainpc,
                 results, mapping, nwrites>>

\* lines 82-83: session.get or resp.read raised a ClientError / TimeoutError
\* (the only answer to a url that has no HTTP(S) scheme)
GetError(w, e) ==
  /\ pc[w] = "get"
  /\ CallLog(w, "transport", e)
  /\ UNCHANGED <<frame, rows, CONCURRENCY, sem, body, status, ret, log, files, mainpc,
                 results, mapping, nwrites>>

\* line 78: aiofiles.open(imagepath, "wb") creates or truncates the file, or
\* raises OSError (caught at line 84)
ImgOpen(w, ok) ==
  /\ pc[w] = "img_open"
  /\ IF ok
       THEN /\ files' = [files EXCEPT ![imagepath(rows[w].Title)] =
                           [exists |-> TRUE, data |-> <<>>]]
            /\ pc' = [pc EXCEPT ![w] = "img_write"]
            /\ UNCHANGED <<site, reason, calls>>
       ELSE /\ CallLog(w, "unexpected", "unexpected_OSError")
            /\ UNCHANGED files
  /\ UNCHANGED <<frame, rows, CONCURRENCY, sem, body, status, ret, log, mainpc, results,
                 mapping, nwrites>>

\* mutant: the success is returned before the body is written
ImgWrite_ReturnsFirst(w, ok) ==
  /\ pc[w] = "img_write"
  /\ ok
  /\ Return(w, <<imagepath(rows[w].Title), rows[w].Score>>)
  /\ UNCHANGED <<frame, rows, CONCURRENCY, site, reason, calls, files, body,
                 status, log, mainpc, results, mapping, nwrites>>

\* lines 79-80: f.write(content) writes at this handle's offset 0, the file
\* is closed and (str(imagepath), score) returned; or the write raises
\* OSError (caught at line 84) and leaves the file as it is
ImgWrite(w, ok) ==
  /\ pc[w] = "img_write"
  /\ IF ok
       THEN /\ files' = [files EXCEPT ![imagepath(rows[w].Title)] =
                           [exists |-> TRUE, data |-> Overlay(@.data, body[w])]]
            /\ Return(w, <<imagepath(rows[w].Title), rows[w].Score>>)
            /\ UNCHANGED <<site, reason, calls>>
       ELSE /\ CallLog(w, "unexpected", "unexpected_OSError")
            /\ UNCHANGED <<files, ret, sem>>
  /\ UNCHANGED <<frame, rows, CONCURRENCY, body, status, log, mainpc, results, mapping,
                 nwrites>>

\* ---------------------------------------------------------------- log_failure
record(w) ==
  [row |-> w, title |-> rows[w].Title, url |-> rows[w].Poster,
   reason |-> reason[w],
   traceback |-> IF site[w] = "unexpected" THEN "format_exc" ELSE "None"]

\* line 53: aiofiles.open(FAILED_JSONL, "a") returns a handle, or raises
\* OSError.  Raised from line 75 the error is inside the try and is caught at
\* line 84, which calls log_failure again; raised from lines 65, 83 or 85 it
\* leaves fetch_image.
LogOpen(w, ok) ==
  /\ pc[w] = "log_open"
  /\ IF ok
       THEN /\ pc' = [pc EXCEPT ![w] = "log_flush"]
            /\ UNCHANGED <<site, reason, calls, sem>>
       ELSE IF site[w] = "status"
         THEN /\ CallLog(w, "unexpected", "unexpected_OSError")
              /\ UNCHANGED sem
         ELSE /\ Raise(w)
              /\ UNCHANGED <<site, reason, calls>>
  /\ UNCHANGED <<frame, rows, CONCURRENCY, body, status, ret, log, files, mainpc, results,
                 mapping, nwrites>>

\* mutant: the record is dropped (the buffered write never reaches the file)
LogFlush_Dropped(w) ==
  /\ pc[w] = "log_flush"
  /\ log' = log
  /\ Return(w, None)
  /\ UNCHANGED <<frame, rows, CONCURRENCY, site, reason, body, status, calls, files, mainpc,
                 results, mapping, nwrites>>

\* mutant: the log is opened with mode "w": each call overwrites the log
LogFlush_Overwrite(w) ==
  /\ pc[w] = "log_flush"
  /\ log' = <<record(w)>>
  /\ Return(w, None)
  /\ UNCHANGED <<frame, rows, CONCURRENCY, site, reason, body, status, calls, files, mainpc,
                 results, mapping, nwrites>>

\* line 54 and the end of the `async with`: the record, buffered by f.write,
\* reaches the file in one append-mode write when the handle is closed;
\* log_failure returns and fetch_image returns None
LogFlush(w) ==
  /\ pc[w] = "log_flush"
  /\ log' = Append(log, record(w))
  /\ Return(w, None)
  /\ UNCHANGED <<frame, rows, CONCURRENCY, site, reason, body, status, calls, files, mainpc,
                 results, mapping, nwrites>>

\* asyncio.run cancels the tasks still pending after scrape_all raised:
\* CancelledError is thrown at the await the task is suspended in and
\* unwinds it (it is no Exception, so line 84 does not catch it)
Cancel(w) ==
  /\ mainpc = "aborted"
  /\ pc[w] \notin Terminal
  /\ pc' = [pc EXCEPT ![w] = "cancelled"]
  /\ sem' = IF Held(w) THEN sem + 1 ELSE sem
  /\ site' = [site EXCEPT ![w] = "none"]
  /\ reason' = [reason EXCEPT ![w] = "none"]
  /\ body' = [body EXCEPT ![w] = <<>>]
  /\ status' = [status EXCEPT ![w] = 0]
  /\ UNCHANGED <<frame, rows, CONCURRENCY, ret, calls, log, files, mainpc, results,
                 mapping, nwrites>>

\* ------------------------------------------------------- scrape_all and main
RECURSIVE NotNone(_, _)
NotNone(r, i) ==
  IF i > NumRows THEN <<>>
  ELSE (IF r[i] = None THEN <<>> ELSE <<r[i]>>) \o NotNone(r, i + 1)

\* mutant: scrape_all returns as soon as one task has returned
ScrapeReturn_Early ==
  /\ mainpc = "gather"
  /\ \E w \in Rows : pc[w] = "done"
  /\ results' = NotNone(ret, 1)
  /\ mainpc' = "returned"
  /\ UNCHANGED <<frame, rows, CONCURRENCY, sem, pc, site, reason, body, status, ret, calls,
                 log, files, mapping, nwrites>>

\* mutant: gather collects the exceptions of the tasks instead of raising
\* them (return_exceptions=True)
ScrapeReturn_IgnoresExceptions ==
  /\ mainpc = "gather"
  /\ \A w \in Rows : pc[w] \in {"done", "raised"}
  /\ results' = NotNone(ret, 1)
  /\ mainpc' = "returned"
  /\ UNCHANGED <<frame, rows, CONCURRENCY, sem, pc, site, reason, body, status,
                 ret, calls, log, files, mapping, nwrites>>

\* line 105-106: every task returned; the results that are not None, in
\* row order
ScrapeReturn ==
  /\ mainpc = "gather"
  /\ \A w \in Rows : pc[w] = "done"
  /\ results' = NotNone(ret, 1)
  /\ mainpc' = "returned"
  /\ UNCHANGED <<frame, rows, CONCURRENCY, sem, pc, site, reason, body, status, ret, calls,
                 log, files, mapping, nwrites>>

\* line 105: gather re-raises the exception of a task; scrape_all and
\* asyncio.run raise it to main, which has no handler
ScrapeRaise ==
  /\ mainpc = "gather"
  /\ \E w \in Rows : pc[w] = "raised"
  /\ mainpc' = "aborted"
  /\ UNCHANGED <<frame, rows, CONCURRENCY, sem, pc, site, reason, body, status, ret, calls,
                 log, files, results, mapping, nwrites>>

\* mutant: the mapping is opened for appending instead of being replaced
WriteMapping_Append ==
  /\ mainpc = "returned"
  /\ mapping' = [exists |-> TRUE, data |-> mapping.data \o results]
  /\ nwrites' = nwrites + 1
  /\ mainpc' = "done"
  /\ UNCHANGED <<frame, rows, CONCURRENCY, sem, pc, site, reason, body, status,
                 ret, calls, log, files, results>>

\* lines 116-117: DataFrame(results).to_csv(MAPPING_CSV)
WriteMapping ==
  /\ mainpc = "returned"
  /\ mapping' = [exists |-> TRUE, data |-> results]
  /\ nwrites' = nwrites + 1
  /\ mainpc' = "done"
  /\ UNCHANGED <<frame, rows, CONCURRENCY, sem, pc, site, reason, body, status, ret, calls,
                 log, files, results>>

Next ==
  \/ \E w \in Rows : Validate(w)
  \/ \E w \in Rows : Acquire(w)
  \/ \E w \in Rows, b \in Bodies : GetOk(w, b)
  \/ \E w \in Rows, c \in BadStatus : GetStatus(w, c)
  \/ \E w \in Rows, e \in TransportErrors : GetError(w, e)
  \/ \E w \in Rows, ok \in BOOLEAN : ImgOpen(w, ok)
  \/ \E w \in Rows, ok \in BOOLEAN : ImgWrite(w, ok)
  \/ \E w \in Rows, ok \in BOOLEAN : LogOpen(w, ok)
  \/ \E w \in Rows : LogFlush(w)
  \/ \E w \in Rows : Cancel(w)
  \/ ScrapeReturn
  \/ ScrapeRaise
  \/ WriteMapping

Spec == Init /\ [][Next]_vars

\* every step of the task of row w
TaskStep(w) ==
  \/ Validate(w)
  \/ Acquire(w)
  \/ \E b \in Bodies : GetOk(w, b)
  \/ \E c \in BadStatus : GetStatus(w, c)
  \/ \E e \in TransportErrors : GetError(w, e)
  \/ \E ok \in BOOLEAN : ImgOpen(w, ok)
  \/ \E ok \in BOOLEAN : ImgWrite(w, ok)
  \/ \E ok \in BOOLEAN : LogOpen(w, ok)
  \/ LogFlush(w)
  \/ Cancel(w)

MainStep == ScrapeReturn \/ ScrapeRaise \/ WriteMapping

\* the event loop runs every task that can run, every network or file
\* operation ends (with a result, an error or a timeout), main goes on
FairSpec ==
  /\ Spec
  /\ \A w \in Rows : WF_vars(TaskStep(w))
  /\ WF_vars(MainStep)

\* lines 123-124: the program is started again on the same input once the
\* previous run has ended (normally or by an exception).  Nothing of the
\* previous process survives but the files: the images, FAILED_JSONL and
\* MAPPING_CSV.
Rerun ==
  /\ run < MaxRuns
  /\ mainpc \in {"done", "aborted"}
  /\ \A w \in Rows : pc[w] \in Terminal
  /\ run' = run + 1
  /\ base' = Len(log)
  /\ sem' = CONCURRENCY
  /\ pc' = [w \in Rows |-> "start"]
  /\ site' = [w \in Rows |-> "none"]
  /\ reason' = [w \in Rows |-> "none"]
  /\ body' = [w \in Rows |-> <<>>]
  /\ status' = [w \in Rows |-> 0]
  /\ ret' = [w \in Rows |-> None]
  /\ calls' = [w \in Rows |-> 0]
  /\ mainpc' = "gather"
  /\ results' = <<>>
  /\ nwrites' = 0
  /\ UNCHANGED <<rows, CONCURRENCY, log, files, mapping, san>>

NextRerun == Next \/ Rerun

\* the runs are explored on tables made of a fetchable row and a row that
\* has no url
RerunRowSet ==
  { r \in RowSet : r.Title = <<"a", "_">> \/ r.Poster = Absent }

InitRerun == Init /\ rows \in [Rows -> RerunRowSet]

SpecRerun == InitRerun /\ [][NextRerun]_vars

\* ------------------------------------------- sanitize_filename on its own
SanAlphabet == {"a", "9", ".", " ", "/"}

RECURSIVE Strings(_)
\* the strings over SanAlphabet of length at most k
Strings(k) ==
  IF k = 0 THEN { <<>> }
  ELSE LET S == Strings(k - 1)
       IN  S \cup { Append(t, c) : t \in { u \in S : Len(u) = k - 1 },
                                   c \in SanAlphabet }

\* one call sanitize_filename(name, max_len) is about to be made; no run of
\* the scraper is in progress
InitSan ==
  /\ rows = [w \in Rows |-> [Title |-> <<"a", "_">>, Poster |-> HttpUrl,
                             Score |-> 7]]
  /\ CONCURRENCY = 1
  /\ sem = 1
  /\ pc = [w \in Rows |-> "start"]
  /\ site = [w \in Rows |-> "none"]
  /\ reason = [w \in Rows |-> "none"]
  /\ body = [w \in Rows |-> <<>>]
  /\ status = [w \in Rows |-> 0]
  /\ ret = [w \in Rows |-> None]
  /\ calls = [w \in Rows |-> 0]
  /\ log = <<>>
  /\ files = [p \in Paths |-> NoFile]
  /\ mainpc = "gather"
  /\ results = <<>>
  /\ mapping = NoFile
  /\ nwrites = 0
  /\ run = 1
  /\ base = 0
  /\ san \in [name : Strings(MaxNameLen), max_len : 0..MaxClip,
              out : { <<>> }, pc : {"call"}]

\* lines 36-38: the call returns
Sanitize ==
  /\ san.pc = "call"
  /\ san' = [san EXCEPT !.out = sanitize_filename(san.name, san.max_len),
                        !.pc = "ret"]
  /\ UNCHANGED <<rows, CONCURRENCY, sem, pc, site, reason, body, status, ret,
                 calls, log, files, mainpc, results, mapping, nwrites, run,
                 base>>

SpecSan == InitSan /\ [][Sanitize]_vars

\* ================================================================== claims
\* number of records of row w in the failure log
NRecords(w) == Cardinality({ i \in 1..Len(log) : log[i].row = w })

Card(S) == Cardinality(S)

\* C1: when main has completed, every row has either one entry in the
\* success mapping and no failure record, or no entry and exactly one
\* failure record; entries + records = number of rows.
C1_EveryRowAccountedOnce ==
  mainpc = "done" =>
    /\ \A w \in Rows :
         \/ ret[w] # None /\ NRecords(w) = 0
         \/ ret[w] = None /\ NRecords(w) = 1
    /\ Len(mapping.data) = Card({ w \in Rows : ret[w] # None })
    /\ Len(mapping.data) + Len(log) = NumRows

\* a completed run with a success and a row whose first log_failure call
\* failed and was repeated by the handler of line 84
C1_Witness ==
  /\ mainpc = "done"
  /\ \E w \in Rows : ret[w] # None
  /\ \E w \in Rows : ret[w] = None /\ calls[w] = 2

\* C2: the tasks that hold a connection (inside `async with session.get`)
\* are never more than the configured limit.
C2_ConnectionsBounded ==
  Card({ w \in Rows : Connected(w) }) <= CONCURRENCY

\* the limit is reached while another row waits for a slot
C2_Witness ==
  /\ Card({ w \in Rows : Connected(w) }) = CONCURRENCY
  /\ \E w \in Rows : pc[w] = "acquire"

\* C3: free slots + slots held by live tasks = capacity in every state, a
\* task whose row fails validation never holds one, and once all tasks are
\* terminal every slot is free.
C3_NoPermitLost ==
  /\ sem >= 0
  /\ sem + Card({ w \in Rows : Held(w) }) = CONCURRENCY
  /\ \A w \in Rows : InvalidUrl(rows[w].Poster) => ~Held(w)
  /\ (\A w \in Rows : pc[w] \in Terminal) => sem = CONCURRENCY

\* all tasks are terminal, one of them left the gated section by an
\* exception raised while logging a failure
C3_Witness ==
  /\ \A w \in Rows : pc[w] \in Terminal
  /\ \E w \in Rows :
       pc[w] = "raised" /\ site[w] \in {"transport", "unexpected"}
  /\ sem = CONCURRENCY

\* C4 (as claimed): when the run has completed, every entry of the success
\* mapping names a file that exists and holds exactly the body some
\* successful row wrote to that path.
C4_EntriesReferToWholeFiles ==
  mainpc = "done" =>
    \A w \in Rows : ret[w] # None =>
      /\ files[ret[w][1]].exists
      /\ \E v \in Rows :
           /\ ret[v] # None
           /\ ret[v][1] = ret[w][1]
           /\ files[ret[w][1]].data = body[v]

\* C5 (as claimed): no exception leaves a fetch_image invocation and
\* scrape_all is never aborted.
C5_ErrorsContained ==
  /\ \A w \in Rows : pc[w] # "raised"
  /\ mainpc # "aborted"

\* a log_failure call of task w ends by raising to its caller: to the caller
\* of fetch_image, or to the handler of line 84, which calls log_failure again
LogRaises(w) ==
  /\ pc[w] = "log_open"
  /\ \/ pc'[w] = "raised"
     \/ calls'[w] > calls[w]

\* C6 (as claimed): no log_failure call raises to its caller.
C6_LogFailureNeverRaises ==
  [][\A w \in Rows : ~LogRaises(w)]_vars

C8_MappingWrittenOnceAfterAll ==
  /\ nwrites <= 1
  /\ mapping.exists =>
       /\ nwrites = 1
       /\ \A w \in Rows : pc[w] = "done"
       /\ mapping.data = NotNone(ret, 1)
  /\ mainpc = "done" => nwrites = 1 /\ mapping.exists

C8_Witness ==
  /\ mainpc = "done"
  /\ nwrites = 1
  /\ Len(mapping.data) = NumRows

\* C9 (as claimed): a row whose url is absent, empty or has no HTTP(S)
\* scheme never waits for or takes a slot, issues no GET, and ends with the
\* record invalid_or_missing_url in the failure log.
C9_InvalidUrlSkipped ==
  \A w \in Rows : ~IsHttpUrl(rows[w].Poster) =>
    /\ pc[w] \notin {"acquire", "raised"}
    /\ ~Held(w)
    /\ calls[w] <= 1
    /\ pc[w] = "done" =>
         /\ ret[w] = None
         /\ \E i \in 1..Len(log) :
              log[i].row = w /\ log[i].reason = "invalid_or_missing_url"

\* C10 (as claimed): when a row that got status 200 and body B returns
\* Success, the file at its path holds exactly B, its return value is
\* (path, score) and it has written no failure record.
C10_BodyWrittenExactly ==
  [][\A w \in Rows :
       (pc[w] = "img_write" /\ pc'[w] = "done") =>
          /\ ret'[w] = <<imagepath(rows[w].Title), rows[w].Score>>
          /\ NRecords(w) = 0
          /\ files'[imagepath(rows[w].Title)].data = body[w]]_vars

\* C11 (as claimed): a row whose GET returned a status c other than 200
\* never opens or writes its file, returns None, and ends with exactly one
\* failure record, whose reason is http_status_c.
C11_BadStatusRecorded ==
  \A w \in Rows : status[w] \notin {0, OK} =>
    /\ pc[w] \notin {"img_open", "img_write"}
    /\ pc[w] = "done" =>
         /\ ret[w] = None
         /\ NRecords(w) = 1
         /\ \E i \in 1..Len(log) :
              /\ log[i].row = w
              /\ log[i].reason = "http_status_" \o ToString(status[w])

\* C12 (as claimed): under fair scheduling every row reaches a terminal
\* outcome (it returns) and the run completes and writes the success mapping.
C12_RunCompletes ==
  <>(/\ \A w \in Rows : pc[w] = "done"
     /\ mainpc = "done"
     /\ mapping.exists)

\* what does hold: no run stalls; every task ends and main ends, by writing
\* the mapping or by the exception of a task
C12_RunEnds ==
  <>[](/\ \A w \in Rows : pc[w] \in Terminal
       /\ mainpc \in {"done", "aborted"})

\* records of row w among the first n records of the failure log
NRecordsIn(w, n) == Cardinality({ i \in 1..n : log[i].row = w })

\* C13: no step removes or changes a record of the failure log (it only
\* grows at its end, within a run and from one run to the next); a row that
\* fails in two runs has two records; when a run has completed, the mapping
\* holds exactly that run's successes and the log holds the records of the
\* earlier runs followed by one record per failed row of this run.
C13_LogAppendsMappingOverwritten ==
  /\ [][/\ Len(log') >= Len(log)
        /\ \A i \in 1..Len(log) : log'[i] = log[i]]_vars
  /\ [](/\ base <= Len(log)
        /\ \A w \in Rows : (pc[w] = "done" /\ ret[w] = None) =>
             NRecords(w) = NRecordsIn(w, base) + 1
        /\ mainpc = "done" =>
             /\ mapping.data = NotNone(ret, 1)
             /\ Len(log) = base + Card({ w \in Rows : ret[w] = None }))

\* a second run has completed; a row failed in both runs and has two
\* records, another row succeeded in the second run
C13_Witness ==
  /\ run = 2
  /\ mainpc = "done"
  /\ \E w \in Rows : NRecords(w) = 2 /\ NRecordsIn(w, base) = 1
  /\ \E w \in Rows : ret[w] # None

\* C14: for a title string and max_len >= 0 the result has at most
\* max_len + 4 characters, ends in ".jpg", and has only characters of
\* A-Z a-z 0-9 . _ - before the extension.
C14_SanitizedNameBoundedAndSafe ==
  san.pc = "ret" =>
    /\ Len(san.out) <= san.max_len + 4
    /\ Len(san.out) >= 4
    /\ SubSeq(san.out, Len(san.out) - 3, Len(san.out)) = <<".", "j", "p", "g">>
    /\ \A i \in 1..(Len(san.out) - 4) :
         san.out[i] \in Letters \cup Digits \cup {".", "_", "-"}

\* a title with an unsafe character that is longer than max_len: the result
\* is cut to exactly max_len + 4 characters
C14_Witness ==
  /\ san.pc = "ret"
  /\ Len(san.name) > san.max_len
  /\ \E i \in 1..Len(san.name) : ~SafeChar(san.name[i])
  /\ Len(san.out) = san.max_len + 4

\* C15 (as claimed): a fetch_image invocation calls log_failure at most
\* once, and not at all when it returns a success.
C15_AtMostOneLogCall ==
  \A w \in Rows :
    /\ calls[w] <= 1
    /\ ret[w] # None => calls[w] = 0

\* C16 (as claimed): when two rows with the same path have both returned a
\* success, the file holds the whole body of one of them, never a mixture.
C16_CollisionIsOverwrite ==
  \A w, v \in Rows :
    (/\ w # v
     /\ ret[w] # None
     /\ ret[v] # None
     /\ ret[w][1] = ret[v][1])
    => /\ NRecords(w) = 0
       /\ NRecords(v) = 0
       /\ files[ret[w][1]].data \in {body[w], body[v]}

\* C17 (as claimed): a row whose network I/O raised a transport error ends
\* as a failure whose record carries the error's kind; its exception never
\* leaves fetch_image, so it never causes a sibling to be cancelled.
C17_TransportErrorContained ==
  \A w \in Rows : site[w] = "transport" =>
    /\ reason[w] \in TransportErrors
    /\ pc[w] # "raised"
    /\ pc[w] = "done" =>
         /\ ret[w] = None
         /\ \E i \in 1..Len(log) :
              log[i].row = w /\ log[i].reason = reason[w]
    /\ (\A v \in Rows \ {w} : pc[v] # "raised") =>
         \A v \in Rows : pc[v] # "cancelled"

\* the stage of a task: 0 before validation, 1 validated and waiting for a
\* slot, 2 slot taken and GET issued, 3 response received and file being
\* written, 4 reporting a failure, 5 outcome reported
Stage(p) ==
  CASE p = "start" -> 0
    [] p = "acquire" -> 1
    [] p = "get" -> 2
    [] p \in {"img_open", "img_write"} -> 3
    [] p \in {"log_open", "log_flush"} -> 4
    [] OTHER -> 5

\* C18: in every step, for every row: its stage never goes back; it waits
\* for a slot only right after a passed validation, issues the GET only in
\* the step that takes the slot it was waiting for, starts the file write
\* only after the GET's response; its file changes only while it is in the
\* write stage; its success is reported only in the step that completes the
\* write, and its failure record is appended only in the report stage.
\* Nothing relates the stages of two rows.
C18_PerRowOrder ==
  [][/\ \A w \in Rows :
          LET s == Stage(pc[w])
              t == Stage(pc'[w])
              path == imagepath(rows[w].Title)
          IN  /\ t >= s
              /\ (t = 1 /\ s # 1) => s = 0 /\ ~InvalidUrl(rows[w].Poster)
              /\ (t = 2 /\ s # 2) => s = 1 /\ sem' = sem - 1
              /\ (t = 3 /\ s # 3) => s = 2 /\ status'[w] = OK
              /\ (ret'[w] # ret[w]) =>
                   /\ pc[w] = "img_write"
                   /\ t = 5
                   /\ Len(files'[path].data) >= Len(body[w])
                   /\ SubSeq(files'[path].data, 1, Len(body[w])) = body[w]
              /\ (Len(log') > Len(log) /\ log'[Len(log')].row = w) =>
                   s = 4 /\ t = 5
     /\ \A q \in Paths : files'[q] # files[q] =>
          \E v \in Rows :
            /\ ~isna(rows[v].Title)
            /\ imagepath(rows[v].Title) = q
            /\ Stage(pc[v]) = 3]_vars

\* one row has gone through every stage and returned a success while
\* another has not been validated yet
C18_Witness ==
  /\ \E w \in Rows : pc[w] = "done" /\ ret[w] # None
  /\ \E w \in Rows : pc[w] = "start"

\* the first k characters of x
Prefix(x, k) == [i \in 1..(IF k < Len(x) THEN k ELSE Len(x)) |-> x[i]]

\* reference of the claim: every character outside the set becomes one "_"
PerChar(name) ==
  [i \in 1..Len(name) |-> IF SafeChar(name[i]) THEN name[i] ELSE "_"]

\* reference of the code: a character outside the set that follows another
\* one is dropped, then every remaining one becomes "_"
PerRun(name) ==
  LET idx == [i \in 1..Len(name) |-> i]
      Kept(i) == SafeChar(name[i]) \/ i = 1 \/ SafeChar(name[i - 1])
      kept == SelectSeq(idx, Kept)
  IN  PerChar([k \in 1..Len(kept) |-> name[kept[k]]])

\* C19 (as claimed): the result is the title with every single unsafe
\* character replaced by one "_", cut to max_len characters, plus ".jpg".
C19_OneReplacementPerCharacter ==
  san.pc = "ret" =>
    san.out = Prefix(PerChar(san.name), san.max_len) \o <<".", "j", "p", "g">>

\* C19 (amended): the result is the title with every maximal run of unsafe
\* characters replaced by one "_", cut to max_len characters, plus ".jpg".
C19_OneReplacementPerRun ==
  san.pc = "ret" =>
    san.out = Prefix(PerRun(san.name), san.max_len) \o <<".", "j", "p", "g">>

\* a title with two unsafe characters in a row, not cut: the result is
\* shorter than the title plus extension
C19_Witness ==
  /\ san.pc = "ret"
  /\ \E i \in 1..(Len(san.name) - 1) :
       ~SafeChar(san.name[i]) /\ ~SafeChar(san.name[i + 1])
  /\ san.max_len >= Len(san.name)
  /\ Len(san.out) < Len(san.name) + 4

\* C20: the mapping is written only when every call of fetch_image has
\* returned; once a call has raised, scrape_all does not return, the mapping
\* is not written in this run, and what the rows that returned have put on
\* disk (the image of a success, the record of a failure) is still there.
C20_MappingOnlyIfAllReturned ==
  /\ nwrites > 0 => \A w \in Rows : pc[w] = "done"
  /\ (\E w \in Rows : pc[w] = "raised") =>
       /\ mainpc \in {"gather", "aborted"}
       /\ nwrites = 0
       /\ ~mapping.exists
       /\ \A v \in Rows : pc[v] = "done" =>
            IF ret[v] # None
            THEN files[imagepath(rows[v].Title)].exists
            ELSE NRecords(v) >= 1

\* the run was aborted by the exception of one row after another row had
\* saved its image, and no task is left running
C20_Witness ==
  /\ mainpc = "aborted"
  /\ \A w \in Rows : pc[w] \in Terminal
  /\ \E w, v \in Rows :
       /\ pc[w] = "raised"
       /\ pc[v] = "done"
       /\ ret[v] # None
       /\ files[imagepath(rows[v].Title)].exists

====
